---- MODULE Spec2Model ----
(***************************************************************************)
(* ZeroTrust DAO Security Oracle: the consensus threat-scoring engine.     *)
(*                                                                         *)
(* One server process (one of the three server variants of the backend)    *)
(* with its WorkingZKAnalyzer, WorkingAIAgents and WorkingAutonomousGuardian*)
(* instances.  The state is the guardian's memoryDB / realDecisions /      *)
(* accuracy, the agents' realMetrics, the server's metric counters, the    *)
(* wall clock, and the last HTTP response and feedback result.             *)
(*                                                                         *)
(* Numbers.  JavaScript doubles are modelled as exact rationals on fixed   *)
(* integer scales: probabilities in units of 1/ProbScale, scores of the    *)
(* agents in units of 1/ScoreScale of a point.  Amounts are multiples of   *)
(* AmountStep so that every product and quotient below is exact.  Times    *)
(* are milliseconds since local midnight of the day the process started.   *)
(***************************************************************************)
EXTENDS Integers, Sequences, FiniteSets, TLC

VARIABLES
    variant,        \* which server program runs: "ultimate", "workingAdvanced", "working"
    now,            \* Date.now(), ms since local midnight
    memoryDB,       \* WorkingAutonomousGuardian.memoryDB
    realDecisions,  \* WorkingAutonomousGuardian.realDecisions
    accuracy,       \* WorkingAutonomousGuardian.accuracy
    realMetrics,    \* WorkingAIAgents.realMetrics
    advancedAI,     \* AdvancedAISystem: isInitialized, modelMetrics samples
    metrics,        \* the server's metric counters
    resp,           \* the last response of the analysis route
    lastLearn,      \* the last learnFromOutcome or addLearning call and what it did
    pending,        \* the requests in flight: per slot, what the handler holds at its await
    memoryBank      \* ElizaOSFramework.memoryBank: the Map's entries in insertion order

vars == <<variant, now, memoryDB, realDecisions, accuracy, realMetrics,
          advancedAI, metrics, resp, lastLearn, pending, memoryBank>>

-----------------------------------------------------------------------------
(* Bounds of the model *)

\* analysis requests per behaviour under Spec
MaxDecisions == 2
\* analysis requests per behaviour under SpecDeep (memoryDB.length > 10 is reached)
MaxDeepDecisions == 12
\* successful learnFromOutcome calls per behaviour
MaxFeedback == 2
\* milliseconds the clock is followed after the start of an hour
MaxTick == 1
\* requests other than idle traffic per behaviour under SpecDeep
MaxBusy == 1
\* configured Pattern Memory capacity, scaled down from the documented 1000
Capacity == 3
\* requests in flight at a time
MaxPending == 2
\* the size limit of ElizaOSFramework.memoryBank, 1000 in the source
MemoryBankLimit == 3
\* sender scores range over 0..MaxSenderScore under SpecZK
MaxSenderScore == 100
\* analysis requests per behaviour under SpecAsync
MaxAsyncDecisions == 3

-----------------------------------------------------------------------------
(* Scales and small helpers *)

MsPerHour == 60 * 60 * 1000
ProbScale == 24 * 6250              \* probability 1.0
ScoreScale == 10 * 100              \* one score point of the agents
AmountStep == 100 * 1000

Min(a, b) == IF a < b THEN a ELSE b

\* Math.round on the rational n/d (d > 0): floor(n/d + 1/2)
MathRound(n, d) == (2 * n + d) \div (2 * d)

\* new Date(t).getHours()
getHours(t) == (t \div MsPerHour) % 24

Undefined == "undefined"

\* a field of a JavaScript object: present or not
Has(o, f) == f \in o.has

\* o.f || 0 for a numeric field
OrZero(o, f) == IF Has(o, f) THEN o[f] ELSE 0

\* o.f > k and o.f < k for a numeric field (a comparison with undefined is false)
Gt(o, f, k) == Has(o, f) /\ o[f] > k
Lt(o, f, k) == Has(o, f) /\ o[f] < k

\* truthiness of a numeric and of a boolean field
TruthyNum(o, f) == Has(o, f) /\ o[f] # 0
TruthyBool(o, f) == Has(o, f) /\ o[f]

\* the fields of o whose JSON value is an object without a primitive value, such
\* as {"valueOf": 1, "toString": 1}: truthy, and a TypeError in arithmetic, in a
\* comparison with a number and in new Date(.)
Unconvertible(o) == IF "unconvertible" \in DOMAIN o THEN o.unconvertible ELSE {}

\* an evaluation that converts the given fields of o to numbers throws
Throws(o, fields) == Unconvertible(o) \cap fields # {}

-----------------------------------------------------------------------------
(* Requests and the environment's choices *)

Variants == {"ultimate", "workingAdvanced", "working"}

\* a request body: `has` names the fields the JSON carries
Body(has, amount, executionTime, contractInteractions, timestamp, senderScore, hasPersonalData, jurisdiction, consentGiven, treasurySize) ==
    [has |-> has, amount |-> amount, executionTime |-> executionTime,
     contractInteractions |-> contractInteractions, timestamp |-> timestamp,
     senderScore |-> senderScore, hasPersonalData |-> hasPersonalData,
     jurisdiction |-> jurisdiction, consentGiven |-> consentGiven,
     treasurySize |-> treasurySize]

CoreFields == {"amount", "executionTime", "contractInteractions", "senderScore"}
AllFields == CoreFields \cup
    {"timestamp", "hasPersonalData", "jurisdiction", "consentGiven", "treasurySize"}

At(hour, minute) == hour * MsPerHour + minute * 60 * 1000

\* the flash-loan scenario: everything high, at 03:30
FlashLoanBody ==
    Body(CoreFields \cup {"timestamp"}, 2000000, 10, 12, At(3, 30), 5, FALSE, "", FALSE, 0)
\* the benign scenario at 14:30
BenignBody ==
    Body(CoreFields \cup {"timestamp"}, 100000, 90, 0, At(14, 30), 95, FALSE, "", FALSE, 0)
\* every field given, every scorer at its highest
WorstBody ==
    Body(AllFields, 2000000, 10, 12, At(3, 30), 5, TRUE, "EU", FALSE, 500000)
\* every field given, nothing moving, just after midnight
IdleBody ==
    Body(AllFields, 0, 90, 0, At(0, 30), 95, FALSE, "US", TRUE, 1000000)
\* a mid-sized transfer without a timestamp
MidBody ==
    Body(CoreFields \cup {"consentGiven"}, 600000, 30, 6, 0, 50, FALSE, "", TRUE, 0)
\* an empty JSON body
EmptyBody ==
    Body({}, 0, 0, 0, 0, 0, FALSE, "", FALSE, 0)

\* the flash-loan scenario executed in no time
InstantBody ==
    Body(CoreFields \cup {"timestamp"}, 2000000, 0, 12, At(3, 30), 5, FALSE, "", FALSE, 0)

\* the benign scenario with every number negative
NegativeBody ==
    Body(CoreFields \cup {"timestamp"}, 0 - 100000, 0 - 5, 0 - 1, At(14, 30), 95, FALSE, "", FALSE, 0)
\* the benign scenario with "senderScore": {"valueOf": 1, "toString": 1}
UnconvertibleSenderBody == BenignBody @@ [unconvertible |-> {"senderScore"}]
\* the benign scenario with "executionTime": {"valueOf": 1, "toString": 1}
UnconvertibleTimeBody == BenignBody @@ [unconvertible |-> {"executionTime"}]

Requests == {FlashLoanBody, BenignBody, WorstBody, IdleBody, MidBody, EmptyBody}
\* under SpecAsync: well-formed and malformed requests
AsyncRequests ==
    {BenignBody, NegativeBody, UnconvertibleSenderBody, UnconvertibleTimeBody, InstantBody}
\* under SpecDeep: idle traffic fills the memory, then the other requests arrive
IdleRequests == {IdleBody}
BusyRequests == Requests \ IdleRequests

\* representatives of the Math.random() defaults of a route
RandomDraws(v) ==
    {[amount |-> 200000, executionTime |-> 30, contractInteractions |-> 2,
      senderScore |-> 20],
     [amount |-> IF v = "ultimate" THEN 1500000 ELSE 700000, executionTime |-> 90,
      contractInteractions |-> IF v = "ultimate" THEN 12 ELSE 8, senderScore |-> 60]}

\* what analyzeAdvancedThreat may return: an error object or a threatScore
NoAI == [ok |-> FALSE, threatScore |-> 0]
AIResults == {NoAI, [ok |-> TRUE, threatScore |-> 0], [ok |-> TRUE, threatScore |-> 100]}

ClockHours == {3, 14}
ClockValues == {At(h, 0) + k : h \in ClockHours, k \in 0..MaxTick}
DeepClockValues == {At(14, 0) + k : k \in 0..MaxTick}

Outcomes == {"threat", "safe"}
\* an id no recorded decision carries
UnknownId == 1000000 - 1

-----------------------------------------------------------------------------
(* The threatData object the routes build from req.body *)

\* { amount: body.amount || random, ..., ...body }: the spread restores what the
\* body carries, a default stays only for a field the body lacks
threatDataOf(v, body, draw, clock) ==
    LET data ==
        [has |-> body.has \cup CoreFields \cup
                     (IF v = "workingAdvanced" THEN {} ELSE {"timestamp"}),
         amount |-> IF Has(body, "amount") THEN body.amount ELSE draw.amount,
         executionTime |-> IF Has(body, "executionTime") THEN body.executionTime
                           ELSE draw.executionTime,
         contractInteractions |-> IF Has(body, "contractInteractions")
                                  THEN body.contractInteractions
                                  ELSE draw.contractInteractions,
         timestamp |-> IF Has(body, "timestamp") THEN body.timestamp
                       ELSE IF v = "workingAdvanced" THEN 0 ELSE clock,
         senderScore |-> IF Has(body, "senderScore") THEN body.senderScore
                         ELSE draw.senderScore,
         hasPersonalData |-> body.hasPersonalData,
         jurisdiction |-> body.jurisdiction,
         consentGiven |-> body.consentGiven,
         treasurySize |-> body.treasurySize]
    IN  IF Unconvertible(body) = {} THEN data
        ELSE data @@ [unconvertible |-> Unconvertible(body)]

-----------------------------------------------------------------------------
(* WorkingAutonomousGuardian: pure parts *)

\* this.personality, on the probability scale
personality ==
    [riskTolerance       |-> (3 * ProbScale) \div 10,
     learningRate        |-> ProbScale \div 100,
     confidenceThreshold |-> (7 * ProbScale) \div 10]

\* Math.min(amount / 1000000, 1)
normalizeAmount(amount) ==
    Min((amount \div AmountStep) * (ProbScale \div (1000000 \div AmountStep)), ProbScale)

\* new Date(timestamp).getHours() / 24
normalizeTime(timestamp) == (getHours(timestamp) * ProbScale) \div 24

\* the threatFactors object of makeAutonomousDecision
threatFactorsOf(eventData, clock) ==
    [amount    |-> normalizeAmount(OrZero(eventData, "amount")),
     speed     |-> IF Lt(eventData, "executionTime", 60)
                   THEN (9 * ProbScale) \div 10 ELSE ProbScale \div 10,
     contracts |-> Min((OrZero(eventData, "contractInteractions") * ProbScale) \div 10,
                       ProbScale),
     time      |-> normalizeTime(IF TruthyNum(eventData, "timestamp")
                                 THEN eventData.timestamp ELSE clock)]

\* amount * 0.4 + speed * 0.3 + contracts * 0.2 + time * 0.1
threatProbabilityOf(f) ==
    (f.amount * 4 + f.speed * 3 + f.contracts * 2 + f.time * 1) \div 10

\* the feature triple calculateSimilarity reads from an event
featuresOf(event) ==
    <<OrZero(event, "amount"), OrZero(event, "contractInteractions"),
      OrZero(event, "executionTime")>>

\* a sum of products of features, exactly: amounts are multiples of AmountStep,
\* so the sum is hi * AmountStep^2 + lo with lo (the part without amounts)
\* far below AmountStep^2
dotProductOf(u, v) ==
    [hi |-> (u[1] \div AmountStep) * (v[1] \div AmountStep),
     lo |-> u[2] * v[2] + u[3] * v[3]]

\* the sign of c[3] * K^2 + c[2] * K + c[1] for K = AmountStep^2, where every
\* coefficient is smaller than K in absolute value: the highest non-zero decides
IsPositive(c) ==
    IF c[3] # 0 THEN c[3] > 0 ELSE IF c[2] # 0 THEN c[2] > 0 ELSE c[1] > 0

\* calculateSimilarity(event1, event2) > 0.8.  The similarity is 0 when a norm
\* is 0, else dotProduct / (sqrt(norm1) * sqrt(norm2)); it exceeds 0.8 = 4/5
\* exactly when dotProduct > 0 and 25 * dotProduct^2 - 16 * norm1 * norm2 > 0
calculateSimilarityAbove08(event1, event2) ==
    LET dotProduct == dotProductOf(featuresOf(event1), featuresOf(event2))
        norm1 == dotProductOf(featuresOf(event1), featuresOf(event1))
        norm2 == dotProductOf(featuresOf(event2), featuresOf(event2))
    IN  IF (norm1.hi = 0 /\ norm1.lo = 0) \/ (norm2.hi = 0 /\ norm2.lo = 0)
        THEN FALSE
        ELSE /\ IsPositive(<<dotProduct.lo, dotProduct.hi, 0>>)
             /\ IsPositive(
                <<25 * dotProduct.lo * dotProduct.lo - 16 * norm1.lo * norm2.lo,
                  50 * dotProduct.hi * dotProduct.lo
                      - 16 * (norm1.hi * norm2.lo + norm1.lo * norm2.hi),
                  25 * dotProduct.hi * dotProduct.hi - 16 * norm1.hi * norm2.hi>>)

\* the known-pattern test of applyPersonality: memoryDB.some(similarity > 0.8)
isKnownPattern(memory, eventData) ==
    \E i \in 1..Len(memory) : calculateSimilarityAbove08(memory[i].event, eventData)

\* applyPersonality(threatScore, eventData), reading this.memoryDB and the clock
applyPersonality(threatScore, eventData, memory, clock) ==
    LET hour == getHours(IF TruthyNum(eventData, "timestamp")
                         THEN eventData.timestamp ELSE clock)
        a1 == IF Gt(eventData, "amount", 500000)
              THEN personality.riskTolerance \div 10 ELSE 0
        a2 == IF hour >= 2 /\ hour <= 6 THEN (15 * ProbScale) \div 100 ELSE 0
        a3 == IF isKnownPattern(memory, eventData) /\ Len(memory) > 10
              THEN (5 * ProbScale) \div 100 ELSE 0
    IN  a1 + a2 - a3

\* makeDecision without the monitor bucket: every probability above 0.3 that
\* is no block raises an alert
makeDecisionAlertAboveThirty(threatScore) ==
    IF threatScore > (8 * ProbScale) \div 10
    THEN [action |-> "block",
          reasoning |-> "High threat probability detected, immediate protection required",
          confidence |-> threatScore]
    ELSE IF threatScore > (3 * ProbScale) \div 10
    THEN [action |-> "alert",
          reasoning |-> "Moderate threat detected, human review recommended",
          confidence |-> threatScore]
    ELSE [action |-> "allow",
          reasoning |-> "Normal transaction pattern, no threat detected",
          confidence |-> ProbScale - threatScore]

\* makeDecision(threatScore)
makeDecision(threatScore) ==
    IF threatScore > (8 * ProbScale) \div 10
    THEN [action |-> "block",
          reasoning |-> "High threat probability detected, immediate protection required",
          confidence |-> threatScore]
    ELSE IF threatScore > (6 * ProbScale) \div 10
    THEN [action |-> "alert",
          reasoning |-> "Moderate threat detected, human review recommended",
          confidence |-> threatScore]
    ELSE IF threatScore > (3 * ProbScale) \div 10
    THEN [action |-> "monitor",
          reasoning |-> "Low threat detected, continued monitoring",
          confidence |-> threatScore]
    ELSE [action |-> "allow",
          reasoning |-> "Normal transaction pattern, no threat detected",
          confidence |-> ProbScale - threatScore]

\* the field `action` of a stored decision record, as evaluateDecision reads it
actionFieldOf(decision) ==
    IF "action" \in DOMAIN decision THEN decision["action"] ELSE Undefined

\* evaluateDecision(decision, actualOutcome)
evaluateDecision(decision, actualOutcome) ==
    \/ actionFieldOf(decision) = "block" /\ actualOutcome = "threat"
    \/ actionFieldOf(decision) = "alert" /\ actualOutcome = "threat"
    \/ actionFieldOf(decision) = "allow" /\ actualOutcome = "safe"
    \/ actionFieldOf(decision) = "monitor" /\ actualOutcome = "safe"

-----------------------------------------------------------------------------
(* WorkingAIAgents: the three rule scorers *)

\* calculateRiskScore(threatData); the hour is the wall clock's
calculateRiskScore(threatData, clock) ==
    LET r1 == IF Gt(threatData, "amount", 1000000) THEN 40
              ELSE IF Gt(threatData, "amount", 100000) THEN 20 ELSE 0
        r2 == IF TruthyNum(threatData, "executionTime") /\ threatData.executionTime < 60
              THEN 30 ELSE 0
        r3 == IF Gt(threatData, "contractInteractions", 5) THEN 20 ELSE 0
        hour == getHours(clock)
        r4 == IF hour >= 2 /\ hour <= 6 THEN 10 ELSE 0
    IN  Min(100, r1 + r2 + r3 + r4)

\* checkPrivacyCompliance(threatData)
checkPrivacyCompliance(threatData) ==
    LET c1 == IF TruthyBool(threatData, "hasPersonalData") THEN 30 ELSE 0
        c2 == IF Has(threatData, "jurisdiction") /\ threatData.jurisdiction = "EU"
              THEN 20 ELSE 0
        c3 == IF ~TruthyBool(threatData, "consentGiven") THEN 25 ELSE 0
    IN  Min(100, c1 + c2 + c3)

\* assessTreasuryImpact(threatData), in 1/ScoreScale points:
\* Math.min(100, amount / (treasurySize || 1000000) * 100)
assessTreasuryImpact(threatData) ==
    LET size == IF TruthyNum(threatData, "treasurySize")
                THEN threatData.treasurySize ELSE 1000000
    IN  IF threatData.amount >= size
        THEN 100 * ScoreScale
        ELSE ((threatData.amount \div AmountStep) * (100 * ScoreScale))
                 \div (size \div AmountStep)

\* the consensus of analyzeWithRealAgents, in 1/ScoreScale points
agentConsensus(riskScore, privacyScore, treasuryImpact) ==
    (riskScore * ScoreScale * 5 + privacyScore * ScoreScale * 2 + treasuryImpact * 3) \div 10

\* the result object of analyzeWithRealAgents
agentResultOf(threatData, clock) ==
    LET riskScore == calculateRiskScore(threatData, clock)
        privacyScore == checkPrivacyCompliance(threatData)
        treasuryImpact == assessTreasuryImpact(threatData)
        consensusScore == agentConsensus(riskScore, privacyScore, treasuryImpact)
    IN  [riskScore |-> MathRound(consensusScore, ScoreScale),
         risk      |-> riskScore,
         privacy   |-> privacyScore,
         treasury  |-> treasuryImpact,
         consensus |-> consensusScore]

-----------------------------------------------------------------------------
(* WorkingZKAnalyzer *)

\* analyzeTimePattern(timestamp)
analyzeTimePattern(timestamp) ==
    LET hour == getHours(timestamp)
    IN  IF hour >= 2 /\ hour <= 6 THEN 70
        ELSE IF hour >= 22 \/ hour <= 2 THEN 40
        ELSE 15

\* (senderScore || 50) < 30 ? 90 : 10
reputationFactor(transactionData) ==
    IF (IF TruthyNum(transactionData, "senderScore")
        THEN transactionData.senderScore ELSE 50) < 30
    THEN 90 ELSE 10

\* generateProof(transactionData); the hash is taken as injective on what it hashes
generateProof(transactionData, clock) ==
    LET amountFactor == IF Gt(transactionData, "amount", 100000) THEN 80 ELSE 20
        timeFactor == analyzeTimePattern(IF TruthyNum(transactionData, "timestamp")
                                         THEN transactionData.timestamp ELSE clock)
        sum == amountFactor + timeFactor + reputationFactor(transactionData)
    IN  [riskScore |-> MathRound(Min(300, sum), 3),
         proofHash |-> transactionData]

-----------------------------------------------------------------------------
(* WorkingAutonomousGuardian.makeAutonomousDecision *)

\* makeAutonomousDecision with the memory entry pushed before the personality
\* adjustment is computed: the fault by which an event matches its own entry
guardianDecisionOfStoringFirst(eventData, memory, clock) ==
    LET threatFactors == threatFactorsOf(eventData, clock)
        threatProbability == threatProbabilityOf(threatFactors)
        Decided(personalityAdjustment) ==
            LET finalThreatScore ==
                    Min(ProbScale, threatProbability + personalityAdjustment)
                decision == makeDecision(finalThreatScore)
            IN  [record |-> [id |-> clock,
                             input |-> threatFactors,
                             prediction |-> threatProbability,
                             decision |-> decision.action,
                             reasoning |-> decision.reasoning,
                             confidence |-> decision.confidence,
                             timestamp |-> clock],
                 result |-> [threat |-> decision.action = "block"
                                            \/ decision.action = "alert",
                             action |-> decision.action,
                             reasoning |-> decision.reasoning,
                             confidence |-> decision.confidence,
                             threatScore |-> MathRound(finalThreatScore * 100, ProbScale),
                             personalityInfluence |-> personalityAdjustment,
                             isRealDecision |-> TRUE]]
    IN  CHOOSE g \in {Decided(personalityAdjustment) :
                        personalityAdjustment \in
                            {applyPersonality(threatProbability, eventData,
                                              Append(memory, [event |-> eventData]),
                                              clock)}} :
            TRUE

\* everything makeAutonomousDecision computes before it stores and returns;
\* applyPersonality is called once and its value used twice
guardianDecisionOf(eventData, memory, clock) ==
    LET threatFactors == threatFactorsOf(eventData, clock)
        threatProbability == threatProbabilityOf(threatFactors)
        Decided(personalityAdjustment) ==
            LET finalThreatScore ==
                    Min(ProbScale, threatProbability + personalityAdjustment)
                decision == makeDecision(finalThreatScore)
            IN  [record |-> [id |-> clock,
                             input |-> threatFactors,
                             prediction |-> threatProbability,
                             decision |-> decision.action,
                             reasoning |-> decision.reasoning,
                             confidence |-> decision.confidence,
                             timestamp |-> clock],
                 result |-> [threat |-> decision.action = "block"
                                            \/ decision.action = "alert",
                             action |-> decision.action,
                             reasoning |-> decision.reasoning,
                             confidence |-> decision.confidence,
                             threatScore |-> MathRound(finalThreatScore * 100, ProbScale),
                             personalityInfluence |-> personalityAdjustment,
                             isRealDecision |-> TRUE]]
    IN  CHOOSE g \in {Decided(personalityAdjustment) :
                        personalityAdjustment \in
                            {applyPersonality(threatProbability, eventData, memory, clock)}} :
            TRUE

\* this.realDecisions.push(decisionRecord)
pushDecision(decisions, record) == Append(decisions, record)

\* a push that keeps one entry per event: the fault by which the append of a
\* second request with the same content is lost
pushMemoryOncePerEvent(memory, eventData, record) ==
    IF \E i \in 1..Len(memory) : memory[i].event = eventData
    THEN memory
    ELSE Append(memory, [event |-> eventData, decision |-> record, outcome |-> "null"])

\* this.memoryDB.push({ event, decision, outcome: null })
pushMemory(memory, eventData, record) ==
    Append(memory, [event |-> eventData, decision |-> record, outcome |-> "null"])

\* the state change of makeAutonomousDecision
makeAutonomousDecision(eventData, g) ==
    /\ realDecisions' = pushDecision(realDecisions, g.record)
    /\ memoryDB' = pushMemory(memoryDB, eventData, g.record)

-----------------------------------------------------------------------------
(* WorkingAIAgents.analyzeWithRealAgents: the metric updates *)

\* updateAgentMetrics(agentType, wasAccurate) on one agent's counters
updateAgentMetrics(m, wasAccurate) ==
    [tasks |-> m.tasks + 1, accuracy |-> m.accuracy + (IF wasAccurate THEN 1 ELSE 0)]

analyzeWithRealAgents(a) ==
    realMetrics' =
        [riskAgent     |-> updateAgentMetrics(realMetrics.riskAgent, a.risk > 70),
         privacyAgent  |-> updateAgentMetrics(realMetrics.privacyAgent, a.privacy < 50),
         treasuryAgent |-> updateAgentMetrics(realMetrics.treasuryAgent,
                                              a.treasury < 30 * ScoreScale)]

-----------------------------------------------------------------------------
(* The scorers on a request that makes them throw *)

\* makeAutonomousDecision throws inside its try block: normalizeAmount divides
\* the amount, executionTime is compared with 60, contractInteractions is
\* divided by 10 and the timestamp goes through new Date(.)
guardianThrows(eventData) ==
    Throws(eventData, {"amount", "executionTime", "contractInteractions", "timestamp"})

\* analyzeWithRealAgents throws inside its try block: calculateRiskScore compares
\* amount, executionTime and contractInteractions with numbers and
\* assessTreasuryImpact divides amount by treasurySize
agentsThrow(threatData) ==
    Throws(threatData, {"amount", "executionTime", "contractInteractions", "treasurySize"})

\* generateProof throws: it compares amount and senderScore with numbers and
\* hands the timestamp to new Date(.); it has no try block, so its promise rejects
zkThrows(transactionData) ==
    Throws(transactionData, {"amount", "timestamp", "senderScore"})

\* what the catch blocks of the guardian and of the agents return
GuardianError == [error |-> "Decision failed", isRealDecision |-> FALSE]
AgentError == [error |-> "AI analysis failed", realAI |-> FALSE]
\* the rejected promise of generateProof
Rejected == [rejected |-> TRUE]

\* the value the await of generateProof(transactionData) gives or throws
zkOutcomeOf(transactionData, clock) ==
    IF zkThrows(transactionData) THEN Rejected ELSE generateProof(transactionData, clock)

\* the value analyzeWithRealAgents(threatData) resolves to
agentOutcomeOf(threatData, clock) ==
    IF agentsThrow(threatData) THEN AgentError ELSE agentResultOf(threatData, clock)

\* the value makeAutonomousDecision(eventData) resolves to
guardianOutcomeOf(eventData, memory, clock) ==
    IF guardianThrows(eventData) THEN GuardianError
    ELSE guardianDecisionOf(eventData, memory, clock).result

\* a result object carries the score field the aggregation reads
HasScore(result, field) == field \in DOMAIN result

-----------------------------------------------------------------------------
(* The aggregation of the three routes *)

\* x || 0 on a result's score (a missing score and 0 both give 0)
ScoreOrZero(ok, score) == IF ok /\ score # 0 THEN score ELSE 0

\* makeUltimateDecision with the four scores divided by three: the fault that
\* the range of the consensus score excludes
makeUltimateDecisionMeanOfThree(aiResult, zkResult, agentResult, guardianResult) ==
    LET scores == [advancedAI |-> ScoreOrZero(aiResult.ok, aiResult.threatScore),
                   zeroKnowledge |-> ScoreOrZero(HasScore(zkResult, "riskScore"),
                                                 zkResult.riskScore),
                   multiAgent |-> ScoreOrZero(HasScore(agentResult, "riskScore"),
                                              agentResult.riskScore),
                   autonomousGuardian |-> ScoreOrZero(HasScore(guardianResult, "threatScore"),
                                                      guardianResult.threatScore)]
        sum == scores.advancedAI + scores.zeroKnowledge + scores.multiAgent
                   + scores.autonomousGuardian
    IN  [sum |-> sum,
         inputs |-> 4,
         ultimateScore |-> MathRound(sum, 3),
         action |-> IF sum > 80 * 4 THEN "block"
                    ELSE IF sum > 60 * 4 THEN "alert" ELSE "monitor",
         reasoning |-> IF sum > 80 * 4 THEN "High-confidence threat detected"
                       ELSE IF sum > 60 * 4 THEN "Moderate threat detected"
                       ELSE "Comprehensive analysis completed",
         individualScores |-> scores]

\* UltimateZeroTrustOracle.makeUltimateDecision(analyses)
makeUltimateDecision(aiResult, zkResult, agentResult, guardianResult) ==
    LET scores == [advancedAI |-> ScoreOrZero(aiResult.ok, aiResult.threatScore),
                   zeroKnowledge |-> ScoreOrZero(HasScore(zkResult, "riskScore"),
                                                 zkResult.riskScore),
                   multiAgent |-> ScoreOrZero(HasScore(agentResult, "riskScore"),
                                              agentResult.riskScore),
                   autonomousGuardian |-> ScoreOrZero(HasScore(guardianResult, "threatScore"),
                                                      guardianResult.threatScore)]
        sum == scores.advancedAI + scores.zeroKnowledge + scores.multiAgent
                   + scores.autonomousGuardian
    IN  [sum |-> sum,
         inputs |-> 4,
         ultimateScore |-> MathRound(sum, 4),
         action |-> IF sum > 80 * 4 THEN "block"
                    ELSE IF sum > 60 * 4 THEN "alert" ELSE "monitor",
         reasoning |-> IF sum > 80 * 4 THEN "High-confidence threat detected"
                       ELSE IF sum > 60 * 4 THEN "Moderate threat detected"
                       ELSE "Comprehensive analysis completed",
         individualScores |-> scores]

\* WorkingAdvancedOracle: ultimateScore and action of /api/ultimate-analysis
workingAdvancedDecision(zkResult, agentResult, guardianResult) ==
    IF HasScore(agentResult, "riskScore") /\ HasScore(guardianResult, "threatScore")
    THEN LET sum == zkResult.riskScore + agentResult.riskScore
                        + guardianResult.threatScore
         IN  [sum |-> sum,
              inputs |-> 3,
              ultimateScore |-> MathRound(sum, 3),
              action |-> IF sum > 80 * 3 THEN "block"
                         ELSE IF sum > 60 * 3 THEN "alert" ELSE "monitor",
              reasoning |-> "Advanced multi-system analysis completed"]
    \* a sum with undefined is NaN: no comparison holds, Math.round gives NaN,
    \* which the JSON of the response carries as null
    ELSE [inputs |-> 3,
          action |-> "monitor",
          reasoning |-> "Advanced multi-system analysis completed"]

\* WorkingSecurityOracle: finalThreatScore of /api/analyze-threat
workingDecision(zkResult, agentResult, guardianResult) ==
    IF HasScore(agentResult, "riskScore") /\ HasScore(guardianResult, "threatScore")
    THEN LET sum == zkResult.riskScore + agentResult.riskScore
                        + guardianResult.threatScore
         IN  [sum |-> sum,
              inputs |-> 3,
              riskScore |-> MathRound(sum, 3),
              threatDetected |-> sum > 70 * 3]
    \* a sum with undefined is NaN: riskScore is null in the JSON of the response
    ELSE [inputs |-> 3, threatDetected |-> FALSE]

-----------------------------------------------------------------------------
(* The state machine *)

NoResponse == [route |-> "none"]

\* the slots of the requests in flight, and a slot no request holds
Slots == 1..MaxPending
FreeSlot == [stage |-> "free"]
NoLearn == [kind |-> "none"]

ZeroAgent == [accuracy |-> 0, tasks |-> 0]

InitAt(clocks) ==
    /\ variant \in Variants
    /\ now \in clocks
    /\ memoryDB = <<>>
    /\ realDecisions = <<>>
    /\ accuracy = [correct |-> 0, total |-> 0]
    /\ realMetrics = [riskAgent |-> ZeroAgent, privacyAgent |-> ZeroAgent,
                      treasuryAgent |-> ZeroAgent]
    /\ advancedAI = [isInitialized |-> FALSE, samples |-> 0]
    /\ metrics = [totalAnalyses |-> 0, threatsPrevented |-> 0,
                  transactionsAnalyzed |-> 0, threatsDetected |-> 0,
                  proofsGenerated |-> 0]
    /\ resp = NoResponse
    /\ lastLearn = NoLearn
    /\ pending = [slot \in Slots |-> FreeSlot]
    /\ memoryBank = <<>>

Init == InitAt(ClockValues)
InitDeep == InitAt(DeepClockValues)

\* the wall clock moves on
Tick(clocks) ==
    /\ \E t \in clocks : t > now /\ now' = t
    /\ UNCHANGED <<variant, memoryDB, realDecisions, accuracy, realMetrics,
                   advancedAI, metrics, resp, lastLearn, pending>>

\* AdvancedAISystem.analyzeAdvancedThreat: lazy initialize(), then the ensemble,
\* whose outcome (a score or the error object) is the libraries'
analyzeAdvancedThreat(aiResult, initOk) ==
    advancedAI' =
        [isInitialized |-> advancedAI.isInitialized \/ initOk,
         samples |-> advancedAI.samples + (IF aiResult.ok THEN 1 ELSE 0)]

\* updateMetrics that counts every analysis as a prevented threat: the fault
\* that the condition on the action excludes
updateMetricsCountingEveryAction(m, action) ==
    [m EXCEPT !.totalAnalyses = @ + 1,
              !.threatsPrevented = @ + 1]

\* updateMetrics of the ultimate and the working-advanced server
updateMetrics(m, action) ==
    [m EXCEPT !.totalAnalyses = @ + 1,
              !.threatsPrevented = @ + (IF action = "block" \/ action = "alert"
                                        THEN 1 ELSE 0)]

\* the counters of the working server's route
updateWorkingMetrics(m, threatDetected) ==
    [m EXCEPT !.proofsGenerated = @ + 1,
              !.transactionsAnalyzed = @ + 1,
              !.threatsDetected = @ + (IF threatDetected THEN 1 ELSE 0)]

\* WorkingAdvancedOracle: cryptoProof.proofHash, the hash of
\* JSON.stringify([threatData.amount, threatData.senderScore]), taken as
\* injective on what it hashes
cryptoProofOf(threatData) == <<threatData.amount, threatData.senderScore>>

\* the part of a response every route sends
responseCore(route, body, threatData, d, zkResult, agentResult, guardianResult) ==
    [route |-> route, status |-> 200, body |-> body, threatData |-> threatData,
     clock |-> now, sum |-> d.sum, inputs |-> d.inputs,
     zk |-> zkResult, agents |-> agentResult, guardian |-> guardianResult]

\* UltimateZeroTrustOracle: POST /api/ultimate-analysis
UltimateAnalysis(body, cap) ==
    /\ variant = "ultimate"
    /\ Len(memoryDB) < cap
    /\ \E draw \in RandomDraws(variant) :
       \E g \in {guardianDecisionOf(threatDataOf(variant, body, draw, now), memoryDB, now)} :
       \E aiResult \in AIResults, initOk \in BOOLEAN :
         LET threatData == threatDataOf(variant, body, draw, now)
             zkResult == generateProof(threatData, now)
             agentResult == agentResultOf(threatData, now)
             d == makeUltimateDecision(aiResult, zkResult, agentResult, g.result)
         IN  /\ analyzeAdvancedThreat(aiResult, initOk)
             /\ analyzeWithRealAgents(agentResult)
             /\ makeAutonomousDecision(threatData, g)
             /\ metrics' = updateMetrics(metrics, d.action)
             /\ resp' = [consensusScore |-> d.ultimateScore, action |-> d.action,
                         reasoning |-> d.reasoning, ai |-> aiResult,
                         individualScores |-> d.individualScores]
                        @@ responseCore("ultimate", body, threatData, d, zkResult,
                                        agentResult, g.result)
    /\ UNCHANGED <<variant, now, accuracy, lastLearn, pending>>

\* WorkingAdvancedOracle: POST /api/ultimate-analysis
WorkingAdvancedAnalysis(body, cap) ==
    /\ variant = "workingAdvanced"
    /\ Len(memoryDB) < cap
    /\ \E draw \in RandomDraws(variant) :
       \E g \in {guardianDecisionOf(threatDataOf(variant, body, draw, now), memoryDB, now)} :
         LET threatData == threatDataOf(variant, body, draw, now)
             zkResult == generateProof(threatData, now)
             agentResult == agentResultOf(threatData, now)
             d == workingAdvancedDecision(zkResult, agentResult, g.result)
         IN  /\ analyzeWithRealAgents(agentResult)
             /\ makeAutonomousDecision(threatData, g)
             /\ metrics' = updateMetrics(metrics, d.action)
             /\ resp' = [consensusScore |-> d.ultimateScore, action |-> d.action,
                         reasoning |-> d.reasoning,
                         cryptoProof |-> cryptoProofOf(threatData)]
                        @@ responseCore("workingAdvanced", body, threatData, d, zkResult,
                                        agentResult, g.result)
    /\ UNCHANGED <<variant, now, accuracy, advancedAI, lastLearn, pending>>

\* WorkingSecurityOracle: POST /api/analyze-threat
AnalyzeThreat(body, cap) ==
    /\ variant = "working"
    /\ Len(memoryDB) < cap
    /\ \E draw \in RandomDraws(variant) :
       \E g \in {guardianDecisionOf(threatDataOf(variant, body, draw, now), memoryDB, now)} :
         LET threatData == threatDataOf(variant, body, draw, now)
             zkResult == generateProof(threatData, now)
             agentResult == agentResultOf(threatData, now)
             d == workingDecision(zkResult, agentResult, g.result)
         IN  /\ analyzeWithRealAgents(agentResult)
             /\ makeAutonomousDecision(threatData, g)
             /\ metrics' = updateWorkingMetrics(metrics, d.threatDetected)
             /\ resp' = [consensusScore |-> d.riskScore,
                         threatDetected |-> d.threatDetected]
                        @@ responseCore("working", body, threatData, d, zkResult,
                                        agentResult, g.result)
    /\ UNCHANGED <<variant, now, accuracy, advancedAI, lastLearn, pending>>

\* this.realDecisions.find(d => d.id === decisionId): the index of the first match, 0 if none
findDecision(decisions, decisionId) ==
    IF \E i \in 1..Len(decisions) : decisions[i].id = decisionId
    THEN CHOOSE i \in 1..Len(decisions) :
            /\ decisions[i].id = decisionId
            /\ \A j \in 1..(i - 1) : decisions[j].id # decisionId
    ELSE 0

\* learnFromOutcome without the early return for an unknown id: the fault that
\* the not-found case excludes
learnFromOutcomeCountingUnknown(decisionId, actualOutcome) ==
    LET i == findDecision(realDecisions, decisionId)
    IN  /\ accuracy.total < MaxFeedback
        /\ accuracy' = [total |-> accuracy.total + 1,
                        correct |-> accuracy.correct
                                    + (IF i # 0 /\ evaluateDecision(realDecisions[i],
                                                                    actualOutcome)
                                       THEN 1 ELSE 0)]
        /\ lastLearn' = [kind |-> "call", decisionId |-> decisionId,
                         actualOutcome |-> actualOutcome, returned |-> TRUE]
        /\ UNCHANGED <<variant, now, memoryDB, realDecisions, realMetrics,
                       advancedAI, metrics, resp, pending>>

\* learnFromOutcome that counts every known decision as correct and never the
\* call: the fault that the order of the two counters excludes
learnFromOutcomeCountingCorrectOnly(decisionId, actualOutcome) ==
    LET i == findDecision(realDecisions, decisionId)
    IN  /\ IF i = 0
           THEN /\ lastLearn' = [kind |-> "call", decisionId |-> decisionId,
                                 actualOutcome |-> actualOutcome, returned |-> FALSE]
                /\ UNCHANGED accuracy
           ELSE /\ accuracy.correct < MaxFeedback
                /\ accuracy' = [total |-> accuracy.total,
                                correct |-> accuracy.correct + 1]
                /\ lastLearn' = [kind |-> "call", decisionId |-> decisionId,
                                 actualOutcome |-> actualOutcome, returned |-> TRUE]
        /\ UNCHANGED <<variant, now, memoryDB, realDecisions, realMetrics,
                       advancedAI, metrics, resp, pending>>

\* WorkingAutonomousGuardian.learnFromOutcome(decisionId, actualOutcome)
learnFromOutcome(decisionId, actualOutcome) ==
    LET i == findDecision(realDecisions, decisionId)
    IN  /\ IF i = 0
           THEN /\ lastLearn' = [kind |-> "call", decisionId |-> decisionId,
                                 actualOutcome |-> actualOutcome, returned |-> FALSE]
                /\ UNCHANGED accuracy
           ELSE /\ accuracy.total < MaxFeedback
                /\ LET wasCorrect == evaluateDecision(realDecisions[i], actualOutcome)
                   IN  accuracy' = [total |-> accuracy.total + 1,
                                    correct |-> accuracy.correct
                                                + (IF wasCorrect THEN 1 ELSE 0)]
                /\ lastLearn' = [kind |-> "call", decisionId |-> decisionId,
                                 actualOutcome |-> actualOutcome, returned |-> TRUE]
        /\ UNCHANGED <<variant, now, memoryDB, realDecisions, realMetrics,
                       advancedAI, metrics, resp, pending>>

\* the ids a caller may pass: those of recorded decisions and one that none carries
KnownIds == {realDecisions[i].id : i \in 1..Len(realDecisions)}

Analyze(bodies, cap) ==
    \E body \in bodies :
        \/ UltimateAnalysis(body, cap)
        \/ WorkingAdvancedAnalysis(body, cap)
        \/ AnalyzeThreat(body, cap)

RecordOutcome ==
    \E decisionId \in KnownIds \cup {UnknownId}, actualOutcome \in Outcomes :
        learnFromOutcome(decisionId, actualOutcome)

Next ==
    \/ Analyze(Requests, MaxDecisions) /\ UNCHANGED memoryBank
    \/ RecordOutcome /\ UNCHANGED memoryBank
    \/ Tick(ClockValues) /\ UNCHANGED memoryBank

\* the memory entries that idle traffic did not leave
BusyCount == Cardinality({i \in 1..Len(memoryDB) : memoryDB[i].event # IdleBody})

NextDeep ==
    \/ Analyze(IdleRequests, MaxDeepDecisions) /\ UNCHANGED memoryBank
    \/ /\ Len(memoryDB) > 10
       /\ BusyCount < MaxBusy
       /\ Analyze(BusyRequests, MaxDeepDecisions)
       /\ UNCHANGED memoryBank
    \/ Tick(DeepClockValues) /\ UNCHANGED memoryBank

-----------------------------------------------------------------------------
(* The routes step by step: a handler runs to its next await, and the handlers *)
(* of other requests run in between.  The scorers themselves never await, so    *)
(* each runs as one step, at the call.                                          *)

InFlight == Cardinality({slot \in Slots : pending[slot].stage # "free"})

\* the slot the next request takes
FreeSlotOf == CHOOSE slot \in Slots :
                 /\ pending[slot].stage = "free"
                 /\ \A other \in Slots : pending[other].stage = "free" => slot <= other

\* a further request may arrive
MayBegin ==
    /\ \E slot \in Slots : pending[slot].stage = "free"
    /\ Len(memoryDB) + InFlight < MaxAsyncDecisions
    /\ realMetrics.riskAgent.tasks + InFlight < MaxAsyncDecisions
    /\ metrics.totalAnalyses + metrics.transactionsAnalyzed + InFlight < MaxAsyncDecisions

\* the call this.aiAgents.analyzeWithRealAgents(threatData), with its catch
runAgents(threatData) ==
    IF agentsThrow(threatData)
    THEN UNCHANGED realMetrics
    ELSE analyzeWithRealAgents(agentResultOf(threatData, now))

\* the call this.autonomousGuardian.makeAutonomousDecision(eventData), with its catch
runGuardian(eventData) ==
    IF guardianThrows(eventData)
    THEN UNCHANGED <<memoryDB, realDecisions>>
    ELSE \E g \in {guardianDecisionOf(eventData, memoryDB, now)} :
            makeAutonomousDecision(eventData, g)

\* analyzeAdvancedThreat up to its first await: `if (!this.isInitialized)
\* await this.initialize()` enters initialize() when the flag is not yet set
aiCallOf(v) ==
    IF v # "ultimate" THEN "none"
    ELSE IF advancedAI.isInitialized THEN "analyzing" ELSE "initializing"

\* the promise of generateProof rejected: the await throws into the route's catch
Failed(p) == "rejected" \in DOMAIN p.zk

\* /api/ultimate-analysis of both servers up to `await Promise.all([...])`: the
\* array holds the promises of calls already made, the guardian's included
BeginParallelAnalysis(body) ==
    /\ variant \in {"ultimate", "workingAdvanced"}
    /\ MayBegin
    /\ \E draw \in RandomDraws(variant) :
         LET threatData == threatDataOf(variant, body, draw, now)
         IN  /\ runAgents(threatData)
             /\ runGuardian(threatData)
             /\ pending' =
                    [pending EXCEPT ![FreeSlotOf] =
                        [stage |-> "scored", body |-> body, threatData |-> threatData,
                         clock |-> now,
                         ai |-> aiCallOf(variant),
                         zk |-> zkOutcomeOf(threatData, now),
                         agents |-> agentOutcomeOf(threatData, now),
                         guardian |-> guardianOutcomeOf(threatData, memoryDB, now)]]
    /\ UNCHANGED <<variant, now, accuracy, advancedAI, metrics, resp, lastLearn>>

\* /api/analyze-threat up to `await this.zkAnalyzer.generateProof(threatData)`
BeginThreatAnalysis(body) ==
    /\ variant = "working"
    /\ MayBegin
    /\ \E draw \in RandomDraws(variant) :
         LET threatData == threatDataOf(variant, body, draw, now)
         IN  pending' =
                [pending EXCEPT ![FreeSlotOf] =
                    [stage |-> "proved", body |-> body, threatData |-> threatData,
                     clock |-> now, zk |-> zkOutcomeOf(threatData, now)]]
    /\ UNCHANGED <<variant, now, memoryDB, realDecisions, accuracy, realMetrics,
                   advancedAI, metrics, resp, lastLearn>>

\* /api/analyze-threat from the proof to `await this.aiAgents.analyzeWithRealAgents`
ContinueWithAgents(slot) ==
    /\ pending[slot].stage = "proved"
    /\ ~Failed(pending[slot])
    /\ metrics' = [metrics EXCEPT !.proofsGenerated = @ + 1]
    /\ runAgents(pending[slot].threatData)
    /\ pending' =
           [pending EXCEPT ![slot] =
               [stage |-> "agents",
                agents |-> agentOutcomeOf(pending[slot].threatData, now)] @@ pending[slot]]
    /\ UNCHANGED <<variant, now, memoryDB, realDecisions, accuracy, advancedAI,
                   resp, lastLearn>>

\* /api/analyze-threat from the agents to `await ...makeAutonomousDecision`
ContinueWithGuardian(slot) ==
    /\ pending[slot].stage = "agents"
    /\ runGuardian(pending[slot].threatData)
    /\ pending' =
           [pending EXCEPT ![slot] =
               [stage |-> "scored",
                guardian |-> guardianOutcomeOf(pending[slot].threatData, memoryDB, now)]
               @@ pending[slot]]
    /\ UNCHANGED <<variant, now, accuracy, realMetrics, advancedAI, metrics,
                   resp, lastLearn>>

\* what every response of a completed analysis repeats of the request
requestPart(p) ==
    [route |-> variant, status |-> 200, body |-> p.body, threatData |-> p.threatData,
     clock |-> p.clock, zk |-> p.zk, agents |-> p.agents, guardian |-> p.guardian]

\* UltimateZeroTrustOracle after Promise.all: makeUltimateDecision, updateMetrics, res.json
FinishUltimate(slot) ==
    /\ variant = "ultimate"
    /\ pending[slot].stage = "scored"
    /\ ~Failed(pending[slot])
    /\ \E aiResult \in AIResults, initOk \in BOOLEAN :
         LET p == pending[slot]
             d == makeUltimateDecision(aiResult, p.zk, p.agents, p.guardian)
         IN  /\ analyzeAdvancedThreat(aiResult, initOk)
             /\ metrics' = updateMetrics(metrics, d.action)
             /\ resp' = [consensusScore |-> d.ultimateScore, sum |-> d.sum,
                         inputs |-> d.inputs, action |-> d.action,
                         reasoning |-> d.reasoning, ai |-> aiResult,
                         individualScores |-> d.individualScores] @@ requestPart(p)
    /\ pending' = [pending EXCEPT ![slot] = FreeSlot]
    /\ UNCHANGED <<variant, now, memoryDB, realDecisions, accuracy, realMetrics, lastLearn>>

\* WorkingAdvancedOracle after Promise.all: cryptoProof, score, action, res.json
FinishWorkingAdvanced(slot) ==
    /\ variant = "workingAdvanced"
    /\ pending[slot].stage = "scored"
    /\ ~Failed(pending[slot])
    /\ LET p == pending[slot]
           d == workingAdvancedDecision(p.zk, p.agents, p.guardian)
           sent == [inputs |-> d.inputs, action |-> d.action, reasoning |-> d.reasoning,
                    cryptoProof |-> cryptoProofOf(p.threatData)]
                   @@ requestPart(p)
       IN  /\ metrics' = updateMetrics(metrics, d.action)
           /\ resp' = IF "sum" \in DOMAIN d
                      THEN [consensusScore |-> d.ultimateScore, sum |-> d.sum] @@ sent
                      ELSE sent
    /\ pending' = [pending EXCEPT ![slot] = FreeSlot]
    /\ UNCHANGED <<variant, now, memoryDB, realDecisions, accuracy, realMetrics,
                   advancedAI, lastLearn>>

\* WorkingSecurityOracle after the guardian: finalThreatScore, counters, res.json
FinishThreatAnalysis(slot) ==
    /\ variant = "working"
    /\ pending[slot].stage = "scored"
    /\ LET p == pending[slot]
           d == workingDecision(p.zk, p.agents, p.guardian)
           sent == [inputs |-> d.inputs, threatDetected |-> d.threatDetected]
                   @@ requestPart(p)
       IN  /\ metrics' = [metrics EXCEPT
                              !.transactionsAnalyzed = @ + 1,
                              !.threatsDetected = @ + (IF d.threatDetected THEN 1 ELSE 0)]
           /\ resp' = IF "sum" \in DOMAIN d
                      THEN [consensusScore |-> d.riskScore, sum |-> d.sum] @@ sent
                      ELSE sent
    /\ pending' = [pending EXCEPT ![slot] = FreeSlot]
    /\ UNCHANGED <<variant, now, memoryDB, realDecisions, accuracy, realMetrics,
                   advancedAI, lastLearn>>

\* the catch block of a route: res.status(500).json({ error }); the AI analysis
\* of the ultimate server, already started, still runs to its end
FailAnalysis(slot) ==
    /\ pending[slot].stage \in {"proved", "scored"}
    /\ Failed(pending[slot])
    /\ IF variant = "ultimate"
       THEN \E aiResult \in AIResults, initOk \in BOOLEAN :
                analyzeAdvancedThreat(aiResult, initOk)
       ELSE UNCHANGED advancedAI
    /\ resp' = [route |-> variant, status |-> 500, body |-> pending[slot].body]
    /\ pending' = [pending EXCEPT ![slot] = FreeSlot]
    /\ UNCHANGED <<variant, now, memoryDB, realDecisions, accuracy, realMetrics,
                   metrics, lastLearn>>

BeginAnalysis ==
    \E body \in AsyncRequests :
        \/ BeginParallelAnalysis(body)
        \/ BeginThreatAnalysis(body)

ContinueAnalysis ==
    \E slot \in Slots :
        \/ ContinueWithAgents(slot)
        \/ ContinueWithGuardian(slot)
        \/ FinishUltimate(slot)
        \/ FinishWorkingAdvanced(slot)
        \/ FinishThreatAnalysis(slot)
        \/ FailAnalysis(slot)

NextAsync ==
    \/ BeginAnalysis /\ UNCHANGED memoryBank
    \/ ContinueAnalysis /\ UNCHANGED memoryBank
    \/ Tick(DeepClockValues) /\ UNCHANGED memoryBank

-----------------------------------------------------------------------------
(* WorkingZKAnalyzer called on its own *)

\* the sender scores a transaction may carry
SenderScores == 0..MaxSenderScore

\* zkAnalyzer.generateProof(transactionData) on a transaction of the given
\* sender score; the result is kept with the factor it was computed from
ProveTransaction(body, senderScore) ==
    /\ \E transactionData \in {[body EXCEPT !.senderScore = senderScore]} :
         resp' = [route |-> "generateProof", status |-> 200, body |-> body,
                  transactionData |-> transactionData, clock |-> now,
                  reputation |-> reputationFactor(transactionData),
                  zk |-> generateProof(transactionData, now)]
    /\ UNCHANGED <<variant, now, memoryDB, realDecisions, accuracy, realMetrics,
                   advancedAI, metrics, lastLearn, pending>>

NextZK ==
    \/ /\ \E body \in {BenignBody, InstantBody}, senderScore \in SenderScores :
              ProveTransaction(body, senderScore)
       /\ UNCHANGED memoryBank
    \/ Tick(ClockValues) /\ UNCHANGED memoryBank

-----------------------------------------------------------------------------
(* ElizaOSFramework: the memory bank *)

\* the keys of a Map, in the order keys() iterates them
keysOf(bank) == [i \in 1..Len(bank) |-> bank[i].key]

\* Map.prototype.has(key)
mapHas(bank, key) == \E i \in 1..Len(bank) : bank[i].key = key

\* Map.prototype.set(key, value): an existing key keeps its place, a new one
\* goes to the end
mapSet(bank, key, value) ==
    IF mapHas(bank, key)
    THEN [i \in 1..Len(bank) |->
             IF bank[i].key = key THEN [key |-> key, value |-> value] ELSE bank[i]]
    ELSE Append(bank, [key |-> key, value |-> value])

\* addLearning that moves a key it sets again to the end of the Map: the
\* fault by which setting a key again changes its place in the eviction order
addLearningMovingToEnd(bank, event, outcome) ==
    LET others == SelectSeq(bank, LAMBDA entry : entry.key # event)
        set == Append(others, [key |-> event, value |-> outcome])
    IN  IF Len(set) > MemoryBankLimit THEN Tail(set) ELSE set

\* addLearning(event, outcome): set, then delete keys().next().value when the
\* size exceeds the limit
addLearning(bank, event, outcome) ==
    LET set == mapSet(bank, event, outcome)
    IN  IF Len(set) > MemoryBankLimit THEN Tail(set) ELSE set

\* the events and outcomes a caller passes
LearningEvents == {"security_analysis", "treasury_analysis", "task_result", "autonomous_ops"}
LearningOutcomes == {25, 75}

\* elizaFramework.addLearning(event, outcome)
AddLearning(event, outcome) ==
    /\ memoryBank' = addLearning(memoryBank, event, outcome)
    /\ lastLearn' = [kind |-> "addLearning", event |-> event, outcome |-> outcome,
                     existed |-> mapHas(memoryBank, event),
                     sizeBefore |-> Len(memoryBank)]
    /\ UNCHANGED <<variant, now, memoryDB, realDecisions, accuracy, realMetrics,
                   advancedAI, metrics, resp, pending>>

NextEliza ==
    \E event \in LearningEvents, outcome \in LearningOutcomes :
        AddLearning(event, outcome)

Spec == Init /\ [][Next]_vars
SpecDeep == InitDeep /\ [][NextDeep]_vars
SpecAsync == InitDeep /\ [][NextAsync]_vars
SpecZK == Init /\ [][NextZK]_vars
SpecEliza == Init /\ [][NextEliza]_vars

-----------------------------------------------------------------------------
(* Properties of the consensus score and the action *)

Actions == {"allow", "monitor", "alert", "block"}

\* a response of an analysis route has been sent
Responded == resp.route # "none"

\* the route's own action field (the working server's response has none)
HasAction == Responded /\ "action" \in DOMAIN resp

\* the documented threshold table: >80 block, >60 alert, 30-60 monitor, <30 allow
ThresholdAction(score) ==
    IF score > 80 THEN "block"
    ELSE IF score > 60 THEN "alert"
    ELSE IF score >= 30 THEN "monitor"
    ELSE "allow"

\* the Pattern Memory as the last analysis found it
MemoryBefore == SubSeq(memoryDB, 1, Len(memoryDB) - 1)

\* C1: in every server variant the consensus score is the mean of exactly four
\* inputs, and these are the Risk, Privacy-Compliance, Treasury-Impact and
\* Guardian scores.
C1_MeanOfFourScorers ==
    Responded =>
        /\ resp.inputs = 4
        /\ resp.sum * ScoreScale =
               (resp.agents.risk + resp.agents.privacy + resp.guardian.threatScore)
                   * ScoreScale + resp.agents.treasury

\* C2: the action of a decision is what the threshold table gives for the
\* consensus score the decision reports; in particular a score below 30 gives allow.
C2_ActionFollowsThresholdTable ==
    HasAction => resp.action = ThresholdAction(resp.consensusScore)

\* C3: for every event and every reachable memory state the reported consensus
\* score is an integer in [0,100], and the action (the route's own where it sends
\* one, and the guardian's decision every route sends) is one of allow, monitor,
\* alert, block.
C3_ScoreAndActionInRange ==
    Responded =>
        /\ resp.consensusScore \in 0..100
        /\ HasAction => resp.action \in Actions
        /\ resp.guardian.action \in Actions

\* C3 happens: a response computed on a memory of more than ten entries, where
\* the guardian's known-pattern dampening took its score below zero
C3_DampenedResponseReached ==
    /\ Responded
    /\ Len(MemoryBefore) > 10
    /\ resp.guardian.threatScore < 0
    /\ resp.consensusScore \in 0..100

\* C4: every individual scorer output (Risk, Privacy-Compliance, Treasury-Impact,
\* the ZK analyzer's riskScore, the Guardian's threatScore) lies in [0,100] after
\* any sequence of prior decisions.
C4_ScorerOutputsInRange ==
    Responded =>
        /\ resp.agents.risk \in 0..100
        /\ resp.agents.privacy \in 0..100
        /\ resp.agents.treasury \in 0..(100 * ScoreScale)
        /\ resp.zk.riskScore \in 0..100
        /\ resp.guardian.threatScore \in 0..100

\* C5: Pattern Memory never holds more than its capacity.
C5_MemoryWithinCapacity == Len(memoryDB) <= Capacity

\* C6: the ids of the decision records are pairwise distinct and strictly
\* increasing in creation order, also when two decisions are made while the
\* clock reads the same millisecond.
C6_IdsStrictlyIncreasing ==
    \A i, j \in 1..Len(realDecisions) :
        i < j => realDecisions[i].id < realDecisions[j].id

\* C7: analysis is deterministic: the per-scorer scores, the guardian's action
\* and the fingerprint of a response are those of every analysis of the same
\* request body on the same Pattern Memory, whatever the wall clock reads and
\* whatever the random source draws.
C7_AnalysisDeterministic ==
    Responded =>
        \A clock \in ClockValues, draw \in RandomDraws(variant) :
            LET threatData == threatDataOf(variant, resp.body, draw, clock)
            IN  /\ agentResultOf(threatData, clock) = resp.agents
                /\ generateProof(threatData, clock) = resp.zk
                /\ guardianDecisionOf(threatData, MemoryBefore, clock).result
                       = resp.guardian

\* the documented correctness of a decision against the observed outcome
DocumentedCorrect(action, actualOutcome) ==
    \/ action \in {"block", "alert"} /\ actualOutcome = "threat"
    \/ action \in {"allow", "monitor"} /\ actualOutcome = "safe"

\* C8: RecordOutcome on a known decision id returns true, increments
\* accuracy.total by exactly 1, and increments accuracy.correct by exactly 1 if
\* and only if the recorded action and the outcome agree (block or alert with
\* threat, allow or monitor with safe).
C8_FeedbackCountsCorrectDecisions ==
    [][\A decisionId \in KnownIds, actualOutcome \in Outcomes :
          learnFromOutcome(decisionId, actualOutcome) =>
              /\ lastLearn'.returned
              /\ accuracy'.total = accuracy.total + 1
              /\ accuracy'.correct = accuracy.correct +
                     (IF DocumentedCorrect(
                             realDecisions[findDecision(realDecisions, decisionId)].decision,
                             actualOutcome)
                      THEN 1 ELSE 0)]_vars

\* C9: RecordOutcome with a decision id that no recorded decision carries returns
\* false and leaves the accuracy counters, the decision log and Pattern Memory
\* unchanged.
C9_UnknownIdChangesNothing ==
    [][\A actualOutcome \in Outcomes :
          learnFromOutcome(UnknownId, actualOutcome) =>
              /\ ~lastLearn'.returned
              /\ UNCHANGED <<accuracy, realDecisions, memoryDB, realMetrics>>]_vars

\* C9 happens: an unknown id was answered with false while decisions are
\* recorded and feedback has been counted
C9_UnknownIdRejectedReached ==
    /\ lastLearn.kind = "call"
    /\ lastLearn.decisionId = UnknownId
    /\ ~lastLearn.returned
    /\ Len(realDecisions) > 0
    /\ accuracy.total > 0

\* C10: every memory entry is created with outcome unknown, and after a
\* successful RecordOutcome(id, outcome) the memory entry that owns the decision
\* id has its outcome field equal to the supplied outcome.
C10_OutcomeWrittenToMemory ==
    [][/\ Len(memoryDB') > Len(memoryDB) => memoryDB'[Len(memoryDB')].outcome = "null"
       /\ \A decisionId \in KnownIds, actualOutcome \in Outcomes :
            learnFromOutcome(decisionId, actualOutcome) =>
                \E i \in 1..Len(memoryDB') :
                    /\ memoryDB'[i].decision.id = decisionId
                    /\ memoryDB'[i].outcome = actualOutcome]_vars

-----------------------------------------------------------------------------
(* Properties of the accuracy counters *)

\* the accuracy counters of every scorer: the three agents' and the guardian's
AccuracyCounters ==
    <<realMetrics.riskAgent.accuracy, realMetrics.riskAgent.tasks,
      realMetrics.privacyAgent.accuracy, realMetrics.privacyAgent.tasks,
      realMetrics.treasuryAgent.accuracy, realMetrics.treasuryAgent.tasks,
      accuracy.correct, accuracy.total>>

\* C11: the per-scorer accuracy counters change only through the feedback
\* operation: an analysis request leaves every one of them unchanged, and no
\* step ever decreases one.
C11_CountersChangeOnlyByFeedback ==
    [][/\ Analyze(Requests, MaxDecisions) => AccuracyCounters' = AccuracyCounters
       /\ \A i \in 1..Len(AccuracyCounters) :
            AccuracyCounters'[i] >= AccuracyCounters[i]]_vars

-----------------------------------------------------------------------------
(* Properties of malformed requests and failing scorers *)

\* the malformed events: a negative amount, execution time or interaction count
HasNegativeField(o) ==
    o.amount < 0 \/ o.executionTime < 0 \/ o.contractInteractions < 0

\* C12: an event with a negative amount, execution time or interaction count is
\* rejected before any scorer runs: no scorer result is ever held for it, no
\* memory entry or decision record stems from it, and its response carries no
\* decision.
C12_NegativeEventRejectedBeforeScoring ==
    /\ \A slot \in Slots :
         pending[slot].stage # "free" => ~HasNegativeField(pending[slot].body)
    /\ \A i \in 1..Len(memoryDB) : ~HasNegativeField(memoryDB[i].event)
    /\ Responded /\ HasNegativeField(resp.body) => resp.status # 200 /\ ~HasAction

\* C13: a failure inside a single scorer never fails the analysis: every
\* request completes with status 200 and a numeric consensus score (and an
\* action, on the routes that return one), never with an error response.
C13_ScorerFailureNeverFailsAnalysis ==
    Responded =>
        /\ resp.status = 200
        /\ "consensusScore" \in DOMAIN resp
        /\ resp.route # "working" => "action" \in DOMAIN resp

\* the documented substitution: a result without the score counts as 50
ScoreOrNeutral(result, field) == IF HasScore(result, field) THEN result[field] ELSE 50

\* C14: when a scorer's result is missing or an error result, the aggregator
\* substitutes the neutral score 50 for it: the consensus score of every
\* completed analysis is computed from the sum of the scorers' scores with 50
\* in the place of each missing one.
C14_MissingScoreCountsAsFifty ==
    Responded /\ resp.status = 200 =>
        /\ "sum" \in DOMAIN resp
        /\ resp.sum = (IF resp.route = "ultimate"
                       THEN IF resp.ai.ok THEN resp.ai.threatScore ELSE 50
                       ELSE 0)
                      + ScoreOrNeutral(resp.zk, "riskScore")
                      + ScoreOrNeutral(resp.agents, "riskScore")
                      + ScoreOrNeutral(resp.guardian, "threatScore")

\* C15: the decision and its memory append are one unit: a request that does
\* not complete leaves no entry behind, so once no request is in flight the
\* memory and the decision log hold no more entries than analyses completed.
C15_NoEntryOfUncompletedRequest ==
    InFlight = 0 =>
        /\ Len(memoryDB) <= metrics.totalAnalyses + metrics.transactionsAnalyzed
        /\ Len(realDecisions) <= metrics.totalAnalyses + metrics.transactionsAnalyzed

-----------------------------------------------------------------------------
(* Properties of concurrent requests *)

\* in this step the guardian returned a decision to the request of the slot
DecisionReturned(slot) ==
    /\ "guardian" \notin DOMAIN pending[slot]
    /\ "guardian" \in DOMAIN pending'[slot]
    /\ HasScore(pending'[slot].guardian, "threatScore")

\* C16: under any interleaving of the requests in flight, memory appends are
\* neither lost nor duplicated: a step in which makeAutonomousDecision returns
\* a decision adds exactly one entry to memoryDB and one record to
\* realDecisions behind the entries already there, every other step adds none,
\* and the i-th memory entry holds the i-th decision record.
C16_AppendsNeitherLostNorDuplicated ==
    [][LET returned == Cardinality({slot \in Slots : DecisionReturned(slot)})
       IN  /\ Len(memoryDB') = Len(memoryDB) + returned
           /\ Len(realDecisions') = Len(realDecisions) + returned
           /\ SubSeq(memoryDB', 1, Len(memoryDB)) = memoryDB
           /\ SubSeq(realDecisions', 1, Len(realDecisions)) = realDecisions
           /\ Len(memoryDB') = Len(realDecisions')
           /\ \A i \in 1..Len(memoryDB') : memoryDB'[i].decision = realDecisions'[i]]_vars

\* two requests in flight, the later arrival decided first: both entries are
\* in the memory, in the order of the guardian's calls
C16_InterleavedRequestsBothStored ==
    \E first, second \in Slots :
        /\ first # second
        /\ pending[first].stage = "scored" /\ pending[second].stage = "scored"
        /\ HasScore(pending[first].guardian, "threatScore")
        /\ HasScore(pending[second].guardian, "threatScore")
        /\ pending[first].clock < pending[second].clock
        /\ pending[first].threatData # pending[second].threatData
        /\ Len(memoryDB) = 2
        /\ memoryDB[1].event = pending[second].threatData
        /\ memoryDB[2].event = pending[first].threatData

-----------------------------------------------------------------------------
(* Properties of the request's fields *)

\* the event of a request with the documented default in the place of every
\* absent field
DocumentedEvent(body, clock) ==
    [has |-> AllFields,
     amount |-> IF Has(body, "amount") THEN body.amount ELSE 0,
     executionTime |-> IF Has(body, "executionTime") THEN body.executionTime ELSE 0,
     contractInteractions |-> IF Has(body, "contractInteractions")
                              THEN body.contractInteractions ELSE 0,
     timestamp |-> IF Has(body, "timestamp") THEN body.timestamp ELSE clock,
     senderScore |-> IF Has(body, "senderScore") THEN body.senderScore ELSE 50,
     hasPersonalData |-> IF Has(body, "hasPersonalData") THEN body.hasPersonalData
                         ELSE FALSE,
     jurisdiction |-> IF Has(body, "jurisdiction") THEN body.jurisdiction ELSE "",
     consentGiven |-> IF Has(body, "consentGiven") THEN body.consentGiven ELSE TRUE,
     treasurySize |-> IF Has(body, "treasurySize") THEN body.treasurySize ELSE 1000000]

\* C17: when a field is absent from the request the scorers see its documented
\* default (amount 0, consent given, ...): the agents' result and the ZK risk
\* score of every response are those of the event with the documented defaults
\* filled in.
C17_AbsentFieldsTakeDocumentedDefaults ==
    Responded =>
        /\ resp.agents = agentResultOf(DocumentedEvent(resp.body, resp.clock), resp.clock)
        /\ resp.zk.riskScore =
               generateProof(DocumentedEvent(resp.body, resp.clock), resp.clock).riskScore

\* the fingerprint a response carries: cryptoProof.proofHash of
\* WorkingAdvancedOracle, the proofHash of the ZK analysis elsewhere
FingerprintOf(r) ==
    IF r.route = "workingAdvanced" THEN r.cryptoProof ELSE r.zk.proofHash

\* the fingerprint the server returns for a request body
fingerprintOfRequest(v, body, draw, clock) ==
    IF v = "workingAdvanced"
    THEN cryptoProofOf(threatDataOf(v, body, draw, clock))
    ELSE generateProof(threatDataOf(v, body, draw, clock), clock).proofHash

\* C18: the fingerprint is a function of the whole event: whatever the server
\* draws, a request made at the same time with the content of the one just
\* answered gets the same fingerprint, and a request that differs in a field
\* gets a different one.
C18_FingerprintOfWholeEvent ==
    Responded =>
        \A body \in Requests, draw \in RandomDraws(variant) :
            body = resp.body <=>
                fingerprintOfRequest(variant, body, draw, resp.clock) = FingerprintOf(resp)

-----------------------------------------------------------------------------
(* Properties of the guardian's known-pattern dampening *)

\* the decision record of the request just answered
LastRecord == memoryDB[Len(memoryDB)].decision

\* the memory the last request found holds a similar entry
KnownBefore == isKnownPattern(MemoryBefore, resp.threatData)

\* C19: whenever the memory holds at least 10 prior entries, one of them with
\* similarity > 0.8 to the new event, the guardian's adjusted probability of
\* the new event is strictly less than its base (weighted-feature) probability.
C19_DampenedBelowBase ==
    Responded /\ Len(MemoryBefore) >= 10 /\ KnownBefore =>
        Min(ProbScale, LastRecord.prediction + resp.guardian.personalityInfluence)
            < LastRecord.prediction

\* C20: the -0.05 adjustment is applied exactly when the memory holds an entry
\* with similarity > 0.8 to the current event and has at least 10 entries: the
\* adjustment of the response is 0.05 below the one computed without memory
\* in exactly those cases.
C20_DampeningFromTenEntries ==
    Responded =>
        ((resp.guardian.personalityInfluence =
              applyPersonality(LastRecord.prediction, resp.threatData, <<>>, resp.clock)
                  - (5 * ProbScale) \div 100)
         <=> (Len(MemoryBefore) >= 10 /\ KnownBefore))

-----------------------------------------------------------------------------
(* Properties of the individual scorers *)

\* the documented Risk Scorer: 40 / 20 by amount, 30 for an execution time
\* below 60, 20 for more than 5 interactions, 10 for the hours 2 to 6
DocumentedRiskScore(threatData, clock) ==
    Min(100,
        (IF threatData.amount > 1000000 THEN 40
         ELSE IF threatData.amount > 100000 THEN 20 ELSE 0)
        + (IF threatData.executionTime < 60 THEN 30 ELSE 0)
        + (IF threatData.contractInteractions > 5 THEN 20 ELSE 0)
        + (IF getHours(clock) >= 2 /\ getHours(clock) <= 6 THEN 10 ELSE 0))

\* C21: the Risk Scorer's score of an event without negative fields is the
\* documented sum, with 30 for every execution time below 60, 0 included.
C21_RiskScoreIsDocumentedSum ==
    /\ Responded
    /\ resp.status = 200
    /\ HasScore(resp.agents, "riskScore")
    /\ ~HasNegativeField(resp.threatData)
    => resp.agents.risk = DocumentedRiskScore(resp.threatData, resp.clock)

-----------------------------------------------------------------------------
(* Properties of the guardian's decision *)

\* the final probability of the request just answered: the stored prediction
\* plus the returned adjustment, capped at 1
FinalProbability ==
    Min(ProbScale, LastRecord.prediction + resp.guardian.personalityInfluence)

\* C22: the guardian maps its final probability p to an action by ordered
\* thresholds (p > 0.8 block, p > 0.6 alert, p > 0.3 monitor, else allow), each
\* with one fixed reasoning string; `threat` holds exactly for block and alert,
\* and the stored decision record carries the same action.
C22_GuardianActionByThresholds ==
    Responded =>
        LET p == FinalProbability
            action == IF 10 * p > 8 * ProbScale THEN "block"
                      ELSE IF 10 * p > 6 * ProbScale THEN "alert"
                      ELSE IF 10 * p > 3 * ProbScale THEN "monitor"
                      ELSE "allow"
            reasoning ==
                [a \in {"block", "alert", "monitor", "allow"} |->
                    CASE a = "block" ->
                           "High threat probability detected, immediate protection required"
                      [] a = "alert" -> "Moderate threat detected, human review recommended"
                      [] a = "monitor" -> "Low threat detected, continued monitoring"
                      [] a = "allow" -> "Normal transaction pattern, no threat detected"]
        IN  /\ resp.guardian.action = action
            /\ resp.guardian.reasoning = reasoning[action]
            /\ resp.guardian.threat <=> action \in {"block", "alert"}
            /\ LastRecord.decision = action
            /\ LastRecord.reasoning = reasoning[action]

\* a response whose guardian found a probability between 0.3 and 0.6
C22_MonitorDecisionReached ==
    /\ Responded
    /\ 10 * FinalProbability > 3 * ProbScale
    /\ 10 * FinalProbability <= 6 * ProbScale
    /\ resp.guardian.action = "monitor"
    /\ LastRecord.decision = "monitor"

\* C23: the confidence of every guardian result and decision record lies in
\* [0,1], whatever the memory holds.
C23_ConfidenceInUnitInterval ==
    Responded =>
        /\ resp.guardian.confidence >= 0 /\ resp.guardian.confidence <= ProbScale
        /\ LastRecord.confidence >= 0 /\ LastRecord.confidence <= ProbScale

-----------------------------------------------------------------------------
(* Properties of the feedback counters *)

\* this step is a learnFromOutcome call that returned true
LearnedInStep ==
    \E decisionId \in KnownIds \cup {UnknownId}, actualOutcome \in Outcomes :
        learnFromOutcome(decisionId, actualOutcome) /\ lastLearn'.returned

\* C24: after any sequence of decisions and learnFromOutcome calls,
\* 0 <= accuracy.correct <= accuracy.total, and accuracy.total counts the
\* learnFromOutcome calls that returned true: such a call raises it by one and
\* no other step changes it.
C24_TotalCountsSuccessfulFeedback ==
    [][/\ 0 <= accuracy'.correct
       /\ accuracy'.correct <= accuracy'.total
       /\ accuracy'.total = accuracy.total + (IF LearnedInStep THEN 1 ELSE 0)]_vars

\* feedback on recorded decisions was counted twice
C24_FeedbackCountedReached ==
    /\ accuracy.total >= 2
    /\ accuracy.correct <= accuracy.total
    /\ lastLearn.kind = "call"
    /\ lastLearn.returned
    /\ Len(realDecisions) > 0

\* C25: learnFromOutcome is not idempotent per decision: a further call with
\* the id of the decision the previous call was about returns true again,
\* raises accuracy.total by one again, and raises accuracy.correct by one when
\* its outcome matches the recorded action.
C25_RepeatedFeedbackCountsAgain ==
    [][\A decisionId \in KnownIds, actualOutcome \in Outcomes :
          /\ lastLearn.kind = "call"
          /\ lastLearn.returned
          /\ lastLearn.decisionId = decisionId
          /\ learnFromOutcome(decisionId, actualOutcome)
          => /\ lastLearn'.returned
             /\ accuracy'.total = accuracy.total + 1
             /\ accuracy'.correct = accuracy.correct +
                    (IF DocumentedCorrect(
                            realDecisions[findDecision(realDecisions, decisionId)].decision,
                            actualOutcome)
                     THEN 1 ELSE 0)]_vars

\* C26: the similarity lookup of a decision reads the memory as it was before
\* that decision: the returned adjustment is the one computed on the entries
\* of earlier requests only, and the first decision of a fresh guardian is not
\* dampened.
C26_LookupReadsMemoryBefore ==
    Responded =>
        /\ resp.guardian.personalityInfluence =
               applyPersonality(LastRecord.prediction, resp.threatData, MemoryBefore,
                                resp.clock)
        /\ Len(MemoryBefore) = 0 => resp.guardian.personalityInfluence >= 0

\* the eleventh decision: its own entry, similar to the event, is the one that
\* takes the memory above ten, and the adjustment is not dampened
C26_OwnEntryNotMatchedReached ==
    /\ Responded
    /\ Len(MemoryBefore) = 10
    /\ KnownBefore
    /\ calculateSimilarityAbove08(memoryDB[Len(memoryDB)].event, resp.threatData)
    /\ resp.guardian.personalityInfluence = 0

-----------------------------------------------------------------------------
(* Properties of the servers' counters *)

\* in this step the request of the slot was answered
Answered(slot) == pending[slot].stage # "free" /\ pending'[slot].stage = "free"

\* C27: in the ultimate and working-advanced servers threatsPrevented never
\* exceeds totalAnalyses; totalAnalyses rises by one with each request answered
\* with a decision and not at all with a request answered with an error, and
\* threatsPrevented rises by one exactly when the decision's action is block
\* or alert.
C27_CountersFollowAnswers ==
    [][/\ variant \in {"ultimate", "workingAdvanced"} =>
              metrics'.threatsPrevented <= metrics'.totalAnalyses
       /\ variant \in {"ultimate", "workingAdvanced"} =>
              metrics'.totalAnalyses = metrics.totalAnalyses +
                  (IF (\E slot \in Slots : Answered(slot)) /\ resp'.status = 200
                   THEN 1 ELSE 0)
       /\ variant \in {"ultimate", "workingAdvanced"} =>
              metrics'.threatsPrevented = metrics.threatsPrevented +
                  (IF (\E slot \in Slots : Answered(slot))
                          /\ resp'.status = 200
                          /\ resp'.action \in {"block", "alert"}
                   THEN 1 ELSE 0)]_vars

\* two requests were answered with a decision, one of them block or alert, and
\* a third one with an error
C27_BlockedMonitoredAndFailedReached ==
    /\ variant \in {"ultimate", "workingAdvanced"}
    /\ metrics.totalAnalyses = 2
    /\ metrics.threatsPrevented = 1
    /\ Responded
    /\ resp.status = 500
    /\ InFlight = 0

-----------------------------------------------------------------------------
(* Properties of the AI system's initialisation *)

\* the requests in flight whose analyzeAdvancedThreat call entered initialize()
Initializing ==
    {slot \in Slots : /\ pending[slot].stage # "free"
                      /\ "ai" \in DOMAIN pending[slot]
                      /\ pending[slot].ai = "initializing"}

\* C28: the initialisation of the AI system runs at most once: of the
\* analyzeAdvancedThreat calls in flight on an instance not yet initialised,
\* only one has entered initialize().
C28_InitializeEnteredOnce == Cardinality(Initializing) <= 1

\* C29: the ZK analyzer's reputation factor is monotone in the sender score:
\* no transaction with a higher sender score gets a higher factor than the one
\* just proved, and a sender score below 30, 0 included, gets the factor 90.
C29_ReputationFactorMonotone ==
    resp.route = "generateProof" =>
        /\ \A senderScore \in SenderScores :
               resp.transactionData.senderScore <= senderScore =>
                   resp.reputation >=
                       reputationFactor([resp.transactionData
                                            EXCEPT !.senderScore = senderScore])
        /\ resp.transactionData.senderScore < 30 => resp.reputation = 90

-----------------------------------------------------------------------------
(* Properties of the ElizaOS memory bank *)

\* C30: after any sequence of addLearning calls the memory bank holds at most
\* the limit of entries, each key once; a call either sets an existing key,
\* which changes neither the size nor the order of the keys, or inserts a new
\* key behind the others, and when that would take the size over the limit the
\* key inserted earliest is removed.
C30_MemoryBankEvictsOldest ==
    [][LET keys == keysOf(memoryBank)
           keysAfter == keysOf(memoryBank')
       IN  /\ Len(keysAfter) <= MemoryBankLimit
           /\ \A i, j \in 1..Len(keysAfter) : keysAfter[i] = keysAfter[j] => i = j
           /\ \/ keysAfter = keys
              \/ /\ Len(keys) < MemoryBankLimit
                 /\ Len(keysAfter) = Len(keys) + 1
                 /\ SubSeq(keysAfter, 1, Len(keys)) = keys
              \/ /\ Len(keys) = MemoryBankLimit
                 /\ Len(keysAfter) = MemoryBankLimit
                 /\ SubSeq(keysAfter, 1, Len(keys) - 1) = Tail(keys)
                 /\ ~mapHas(memoryBank, keysAfter[Len(keysAfter)])]_vars

\* a key of the full bank was set again and has kept its place at the head,
\* from where the next new key will evict it
C30_ResetKeyKeptPlaceReached ==
    /\ lastLearn.kind = "addLearning"
    /\ lastLearn.existed
    /\ lastLearn.sizeBefore = MemoryBankLimit
    /\ Len(memoryBank) = MemoryBankLimit
    /\ memoryBank[1].key = lastLearn.event
    /\ memoryBank[1].value = lastLearn.outcome

====
